---- MODULE Spec2Model ----
(***************************************************************************)
(* A model of idgames/wad.py: the WAD directory parser (Wad.load), the     *)
(* archive merge (Wad.patch), the memoized properties (Wad.pnames,         *)
(* Wad.palette, Wad.patch_map), the picture codec (Patch.from_bytes,       *)
(* Patch.to_bytes), the texture directory decoder (Texture.load_textures), *)
(* the compositor (Texture.flatten), the renderer (render_paletted) and    *)
(* the palette decoder (Lump.as_palette).                                  *)
(*                                                                         *)
(* Byte strings are sequences of 0..255.  Python's 0-based half-open       *)
(* slices are modelled by Slice; struct.pack / struct.unpack by the        *)
(* little-endian conversions below.  A call that raises is modelled by a   *)
(* result record with ok = FALSE.                                          *)
(*                                                                         *)
(* Each component has its own specification (SpecPicture, SpecLoad, ...):  *)
(* the inputs are drawn in its Init and the operations are its actions;    *)
(* the variables of the other components stay at their idle values.        *)
(***************************************************************************)
EXTENDS Integers, Sequences, FiniteSets

VARIABLES
    \* picture codec (Patch.to_bytes / Patch.from_bytes, test_patches)
    pic_pc, picture, lump_data, patch, round_trip,
    \* archive parser (Wad.load)
    load_pc, wad_data, wad,
    \* archive merger (Wad.patch)
    merge_pc, iwad, pwad, merged,
    \* palette decoder (Lump.as_palette)
    pal_pc, playpal_data, playpal,
    \* renderer (render_paletted)
    ren_pc, palette, pixels, image,
    \* compositor (Texture.flatten)
    flat_pc, texture, flat, stores,
    \* memoized properties of one archive (Wad.pnames, Wad.palette, Wad.patch_map)
    cache_pc, archive, accesses, computed, returned,
    \* texture directory decoder (Texture.load_textures)
    tex_pc, tex_wad, tex_data, textures, failures

picVars == <<pic_pc, picture, lump_data, patch, round_trip>>
loadVars == <<load_pc, wad_data, wad>>
mergeVars == <<merge_pc, iwad, pwad, merged>>
palVars == <<pal_pc, playpal_data, playpal>>
renVars == <<ren_pc, palette, pixels, image>>
flatVars == <<flat_pc, texture, flat, stores>>
cacheVars == <<cache_pc, archive, accesses, computed, returned>>
texVars == <<tex_pc, tex_wad, tex_data, textures, failures>>
vars == <<picVars, loadVars, mergeVars, palVars, renVars, flatVars, cacheVars, texVars>>

\* what the actions of one component leave alone
picOthers == <<loadVars, mergeVars, palVars, renVars, flatVars, cacheVars, texVars>>
loadOthers == <<picVars, mergeVars, palVars, renVars, flatVars, cacheVars, texVars>>
mergeOthers == <<picVars, loadVars, palVars, renVars, flatVars, cacheVars, texVars>>
palOthers == <<picVars, loadVars, mergeVars, renVars, flatVars, cacheVars, texVars>>
renOthers == <<picVars, loadVars, mergeVars, palVars, flatVars, cacheVars, texVars>>
flatOthers == <<picVars, loadVars, mergeVars, palVars, renVars, cacheVars, texVars>>
cacheOthers == <<picVars, loadVars, mergeVars, palVars, renVars, flatVars, texVars>>
texOthers == <<picVars, loadVars, mergeVars, palVars, renVars, flatVars, cacheVars>>

----------------------------------------------------------------------------
(* The values the variables hold before anything is assigned to them, and  *)
(* each component at rest.                                                 *)

\* a Patch with nothing in it
NoPatch == [width |-> 0, height |-> 0, x |-> 0, y |-> 0, columns |-> <<>>]

\* an unset cache slot (None), and a set one
None == [set |-> FALSE, val |-> <<>>]
Some(v) == [set |-> TRUE, val |-> v]

\* Wad.__init__
NoWad ==
    [iwad |-> FALSE, lumps |-> <<>>, lump_lookup |-> <<>>,
     _pnames |-> None, _playpal |-> None, _patch_map |-> None]

PicIdle ==
    /\ pic_pc = "idle" /\ picture = NoPatch /\ lump_data = <<>>
    /\ patch = NoPatch /\ round_trip = <<>>

LoadIdle == load_pc = "idle" /\ wad_data = <<>> /\ wad = NoWad

MergeIdle == merge_pc = "idle" /\ iwad = NoWad /\ pwad = NoWad /\ merged = NoWad

PalIdle == pal_pc = "idle" /\ playpal_data = <<>> /\ playpal = <<>>

RenIdle == ren_pc = "idle" /\ palette = <<>> /\ pixels = <<>> /\ image = <<>>

\* a Texture with nothing in it
NoTexture == [name |-> <<>>, width |-> 0, height |-> 0, patches |-> <<>>]

FlatIdle == flat_pc = "idle" /\ texture = NoTexture /\ flat = <<>> /\ stores = <<>>

\* no property computed yet
NoneComputed == [pnames |-> 0, playpal |-> 0, patch_map |-> 0]
\* nothing returned yet
NoReturn == [property |-> "", ok |-> FALSE, val |-> <<>>]

CacheIdle ==
    /\ cache_pc = "idle" /\ archive = NoWad /\ accesses = 0
    /\ computed = NoneComputed /\ returned = NoReturn

TexIdle ==
    /\ tex_pc = "idle" /\ tex_wad = NoWad /\ tex_data = <<>>
    /\ textures = <<>> /\ failures = <<>>

PicOthersIdle == LoadIdle /\ MergeIdle /\ PalIdle /\ RenIdle /\ FlatIdle /\ CacheIdle /\ TexIdle
LoadOthersIdle == PicIdle /\ MergeIdle /\ PalIdle /\ RenIdle /\ FlatIdle /\ CacheIdle /\ TexIdle
MergeOthersIdle == PicIdle /\ LoadIdle /\ PalIdle /\ RenIdle /\ FlatIdle /\ CacheIdle /\ TexIdle
PalOthersIdle == PicIdle /\ LoadIdle /\ MergeIdle /\ RenIdle /\ FlatIdle /\ CacheIdle /\ TexIdle
RenOthersIdle == PicIdle /\ LoadIdle /\ MergeIdle /\ PalIdle /\ FlatIdle /\ CacheIdle /\ TexIdle
FlatOthersIdle == PicIdle /\ LoadIdle /\ MergeIdle /\ PalIdle /\ RenIdle /\ CacheIdle /\ TexIdle
CacheOthersIdle == PicIdle /\ LoadIdle /\ MergeIdle /\ PalIdle /\ RenIdle /\ FlatIdle /\ TexIdle
TexOthersIdle == PicIdle /\ LoadIdle /\ MergeIdle /\ PalIdle /\ RenIdle /\ FlatIdle /\ CacheIdle

----------------------------------------------------------------------------
(* Bytes and struct.                                                       *)

Min(a, b) == IF a < b THEN a ELSE b

\* data[a:b] of Python, for 0 <= a and 0 <= b
Slice(data, a, b) == SubSeq(data, a + 1, Min(b, Len(data)))

\* struct.pack('H', n) and ('I', n), little-endian
PackU16(n) == <<n % 256, (n \div 256) % 256>>
PackU32(n) == <<n % 256, (n \div 256) % 256, (n \div 65536) % 256, (n \div 16777216) % 256>>
\* struct.pack('h', n): two's complement
PackI16(n) == PackU16((n + 65536) % 65536)

\* struct.unpack of 'H', 'I', 'h' on exactly 2 / 4 / 2 bytes
UnpackU16(b) == b[1] + 256 * b[2]
UnpackU32(b) == b[1] + 256 * b[2] + 65536 * b[3] + 16777216 * b[4]
UnpackI16(b) == IF UnpackU16(b) >= 32768 THEN UnpackU16(b) - 65536 ELSE UnpackU16(b)

RECURSIVE Join(_)
\* b''.join(parts)
Join(parts) == IF parts = <<>> THEN <<>> ELSE Head(parts) \o Join(Tail(parts))

RECURSIVE IndexOf(_, _, _)
\* b.index(v) searched from 0-based position i; -1 stands for ValueError
IndexOf(b, v, i) ==
    IF i >= Len(b) THEN -1
    ELSE IF b[i + 1] = v THEN i
    ELSE IndexOf(b, v, i + 1)

\* str.upper() on ASCII codes
Upper(s) == [k \in 1..Len(s) |-> IF s[k] >= 97 /\ s[k] <= 122 THEN s[k] - 32 ELSE s[k]]

\* c_str: cut at the first NUL, then decode as ASCII (a byte >= 128 raises)
c_str(b) ==
    LET size == IndexOf(b, 0, 0)
        cut  == IF size = -1 THEN b ELSE SubSeq(b, 1, size)
    IN  IF \E k \in 1..Len(cut) : cut[k] >= 128
        THEN [ok |-> FALSE, val |-> <<>>]
        ELSE [ok |-> TRUE, val |-> cut]

----------------------------------------------------------------------------
(* Archive parser.                                                         *)

\* the 4-byte magics b'IWAD' and b'PWAD'
IWAD == <<73, 87, 65, 68>>
PWAD == <<80, 87, 65, 68>>

\* wad.lump_lookup = {lump.name.upper(): lump for lump in wad.lumps}: a later
\* lump replaces an earlier one of the same name
LumpLookup(lumps) ==
    [n \in {Upper(lumps[i].name) : i \in 1..Len(lumps)} |->
        lumps[CHOOSE i \in 1..Len(lumps) :
                /\ Upper(lumps[i].name) = n
                /\ \A j \in 1..Len(lumps) : Upper(lumps[j].name) = n => j <= i]]

RECURSIVE ReadDirectory(_, _, _, _)
\* the while loop of Wad.load: one 16-byte entry per turn, until directory is
\* empty
ReadDirectory(data, directory, i, lumps) ==
    IF directory = <<>> THEN [ok |-> TRUE, val |-> lumps]
    ELSE IF Len(directory) < 16 THEN [ok |-> FALSE, val |-> <<>>]
    ELSE
      LET offset == UnpackU32(Slice(directory, 0, 4))
          size   == UnpackU32(Slice(directory, 4, 8))
          name   == c_str(Slice(directory, 8, 16))
      IN  IF ~name.ok THEN [ok |-> FALSE, val |-> <<>>]
          ELSE ReadDirectory(data, Slice(directory, 16, Len(directory)), i + 1,
                             Append(lumps, [name     |-> Upper(name.val),
                                            position |-> i,
                                            data     |-> Slice(data, offset, offset + size)]))

\* Wad.load
Load(data) ==
    IF Len(data) < 12 THEN [ok |-> FALSE, val |-> NoWad]
    ELSE
      LET magic  == Slice(data, 0, 4)
          offset == UnpackU32(Slice(data, 8, 12))
          lumps  == ReadDirectory(data, Slice(data, offset, Len(data)), 0, <<>>)
      IN  IF magic # IWAD /\ magic # PWAD THEN [ok |-> FALSE, val |-> NoWad]
          ELSE IF ~lumps.ok THEN [ok |-> FALSE, val |-> NoWad]
          ELSE [ok |-> TRUE,
                val |-> [NoWad EXCEPT !.iwad        = (magic = IWAD),
                                      !.lumps       = lumps.val,
                                      !.lump_lookup = LumpLookup(lumps.val)]]

\* Bounds and inputs of the archive parser.
MaxLumps == 2

Magics == {IWAD, PWAD, <<88, 87, 65, 68>>}
\* 8-byte name fields: "A", "a", "PLAYPAL", and one with a non-ASCII byte
NameFields ==
    {<<65, 0, 0, 0, 0, 0, 0, 0>>, <<97, 0, 0, 0, 0, 0, 0, 0>>,
     <<80, 76, 65, 89, 80, 65, 76, 0>>, <<200, 0, 0, 0, 0, 0, 0, 0>>}
\* (data offset, data size) of an entry: empty, inside the buffer, and
\* reaching 54 bytes into it
Extents == {<<12, 0>>, <<12, 2>>, <<14, 40>>}
DirEntries == [offset : {e[1] : e \in Extents}, size : {e[2] : e \in Extents}, name : NameFields]
\* the lump bytes between the header and the directory
LumpBytes == <<1, 2, 3, 4>>
\* the number of bytes that follow the directory's entries
TrailingLens == {0, 4, 16}

EntryBytes(e) == PackU32(e.offset) \o PackU32(e.size) \o e.name

\* an archive buffer: header (magic, count, directory offset), lump bytes,
\* the declared entries, then trailing (zero) bytes
WadBytes(magic, entries, trailing) ==
    magic \o PackU32(Len(entries)) \o PackU32(12 + Len(LumpBytes)) \o LumpBytes
        \o Join([k \in 1..Len(entries) |-> EntryBytes(entries[k])])
        \o [k \in 1..trailing |-> 0]

\* the buffers that declare n lumps
WadBuffers(n) ==
    {WadBytes(m, es, t) :
        m \in Magics, t \in TrailingLens,
        es \in {f \in [1..n -> DirEntries] :
                   \A k \in 1..n : <<f[k].offset, f[k].size>> \in Extents}}

LoadInit ==
    /\ LoadOthersIdle
    /\ load_pc = "buffer"
    /\ \E n \in 0..MaxLumps : wad_data \in WadBuffers(n)
    /\ wad = NoWad

\* wad = Wad.load(data)
WadLoad ==
    /\ load_pc = "buffer"
    /\ LET r == Load(wad_data)
       IN  /\ wad' = r.val
           /\ load_pc' = IF r.ok THEN "loaded" ELSE "raised"
    /\ UNCHANGED <<wad_data, loadOthers>>

LoadNext == WadLoad

SpecLoad == LoadInit /\ [][LoadNext]_vars

\* what the header and the directory of a buffer declare
DeclaredCount(data) == UnpackU32(Slice(data, 4, 8))
DeclaredDirOffset(data) == UnpackU32(Slice(data, 8, 12))
\* the i-th (0-based) 16-byte directory entry
DeclaredEntry(data, i) ==
    LET e == Slice(data, DeclaredDirOffset(data) + 16 * i, DeclaredDirOffset(data) + 16 * i + 16)
    IN  [offset |-> UnpackU32(Slice(e, 0, 4)),
         size   |-> UnpackU32(Slice(e, 4, 8)),
         name   |-> Slice(e, 8, 16)]
\* a valid magic, all declared entries inside the buffer, with ASCII names
\* and payloads inside the buffer
WellFormedArchive(data) ==
    /\ Len(data) >= 12
    /\ Slice(data, 0, 4) \in {IWAD, PWAD}
    /\ DeclaredDirOffset(data) + 16 * DeclaredCount(data) <= Len(data)
    /\ \A i \in 0..(DeclaredCount(data) - 1) :
          /\ c_str(DeclaredEntry(data, i).name).ok
          /\ DeclaredEntry(data, i).offset + DeclaredEntry(data, i).size <= Len(data)

\* C2 as stated: a buffer with a valid magic that declares N lumps at offset D
\* loads to exactly N lumps, the i-th being the i-th directory entry, whatever
\* follows the N entries.  Fails: Wad.load never reads the count and parses
\* every byte from D to the end of the buffer as directory.
C2_DirectoryIntegrity ==
    (load_pc # "buffer" /\ WellFormedArchive(wad_data)) =>
        /\ load_pc = "loaded"
        /\ Len(wad.lumps) = DeclaredCount(wad_data)
        /\ \A i \in 0..(DeclaredCount(wad_data) - 1) :
              LET e == DeclaredEntry(wad_data, i)
              IN  wad.lumps[i + 1] =
                      [name     |-> Upper(c_str(e.name).val),
                       position |-> i,
                       data     |-> Slice(wad_data, e.offset, e.offset + e.size)]

\* C9 as stated: when a directory entry's data offset plus data size exceeds
\* the buffer length, Wad.load raises; no returned lump has a payload shorter
\* than its declared size.  Fails: the slice is cut short silently.
C9_OutOfRangeLumpRaises ==
    load_pc = "loaded" =>
        \A i \in 0..(Len(wad.lumps) - 1) :
            LET e == DeclaredEntry(wad_data, i)
            IN  /\ e.offset + e.size <= Len(wad_data)
                /\ Len(wad.lumps[i + 1].data) = e.size

----------------------------------------------------------------------------
(* Archive merger.                                                         *)

\* 'PLAYPAL'
PLAYPAL == <<80, 76, 65, 89, 80, 65, 76>>

\* {**a, **b}: b's entries replace a's
DictMerge(a, b) ==
    [n \in (DOMAIN a) \cup (DOMAIN b) |-> IF n \in DOMAIN b THEN b[n] ELSE a[n]]

\* Wad.patch without the PLAYPAL exception: the override wins for every name
PatchOverrideWinsAll(self, other) ==
    [NoWad EXCEPT !.lump_lookup = DictMerge(self.lump_lookup, other.lump_lookup)]

\* Wad.patch: self is the base archive, other the override
PatchWad(self, other) ==
    LET lookup == DictMerge(self.lump_lookup, other.lump_lookup)
    IN  [NoWad EXCEPT !.lump_lookup =
            IF PLAYPAL \in DOMAIN self.lump_lookup
            THEN [n \in DOMAIN lookup |->
                    IF n = PLAYPAL THEN self.lump_lookup[PLAYPAL] ELSE lookup[n]]
            ELSE lookup]

\* Bounds and inputs of the archive merger.
MaxMergeLumps == 2

\* lump names: PLAYPAL, 'A', 'B'
MergeNames == {PLAYPAL, <<65>>, <<66>>}

\* an archive as Wad.load leaves it, its lumps named by names; tag tells the
\* payloads of the two archives apart
MakeWad(names, is_iwad, tag) ==
    LET lumps == [k \in 1..Len(names) |->
                    [name |-> names[k], position |-> k - 1, data |-> <<tag, k>>]]
    IN  [NoWad EXCEPT !.iwad = is_iwad, !.lumps = lumps, !.lump_lookup = LumpLookup(lumps)]

\* the name lists of up to n names
NameLists(n) == UNION {[1..k -> MergeNames] : k \in 0..n}

MergeInit ==
    /\ MergeOthersIdle
    /\ merge_pc = "loaded"
    /\ iwad \in {MakeWad(ns, TRUE, 1) : ns \in NameLists(MaxMergeLumps)}
    /\ pwad \in {MakeWad(ns, FALSE, 2) : ns \in NameLists(MaxMergeLumps)}
    /\ merged = NoWad

\* wad = _iwad.patch(wad)
DoPatch ==
    /\ merge_pc = "loaded"
    /\ merged' = PatchWad(iwad, pwad)
    /\ merge_pc' = "patched"
    /\ UNCHANGED <<iwad, pwad, mergeOthers>>

MergeNext == DoPatch

SpecMerge == MergeInit /\ [][MergeNext]_vars

\* C3: after base.patch(override), a name other than PLAYPAL resolves to the
\* override's lump when the override defines it and otherwise to the base's;
\* PLAYPAL resolves to the base's lump whenever the base defines it, and to
\* the override's only when the base does not; a name neither defines is
\* not resolved.
C3_MergePrecedence ==
    merge_pc = "patched" =>
        \A n \in MergeNames :
            LET inBase == n \in DOMAIN iwad.lump_lookup
                inOver == n \in DOMAIN pwad.lump_lookup
                baseFirst == (n = PLAYPAL)
            IN  /\ (n \in DOMAIN merged.lump_lookup) = (inBase \/ inOver)
                /\ (inBase /\ (baseFirst \/ ~inOver)) =>
                       merged.lump_lookup[n] = iwad.lump_lookup[n]
                /\ (inOver /\ (~baseFirst \/ ~inBase)) =>
                       merged.lump_lookup[n] = pwad.lump_lookup[n]

\* both archives define PLAYPAL and 'A': the merge keeps the base's palette
\* and takes the override's 'A'
C3_Witness ==
    /\ merge_pc = "patched"
    /\ PLAYPAL \in DOMAIN iwad.lump_lookup /\ PLAYPAL \in DOMAIN pwad.lump_lookup
    /\ <<65>> \in DOMAIN iwad.lump_lookup /\ <<65>> \in DOMAIN pwad.lump_lookup
    /\ merged.lump_lookup[PLAYPAL] = iwad.lump_lookup[PLAYPAL]
    /\ merged.lump_lookup[PLAYPAL] # pwad.lump_lookup[PLAYPAL]
    /\ merged.lump_lookup[<<65>>] = pwad.lump_lookup[<<65>>]
    /\ merged.lump_lookup[<<65>>] # iwad.lump_lookup[<<65>>]

----------------------------------------------------------------------------
(* Palette decoder.                                                        *)

\* the number of palette entries: range(256)
PaletteSize == 256

\* a decoder that returns as many whole triples as the payload holds
AsPaletteTruncating(data) ==
    LET n == Min(PaletteSize, Len(data) \div 3)
    IN  [ok |-> TRUE,
         val |-> [i \in 1..n |-> <<data[3 * i - 2], data[3 * i - 1], data[3 * i]>>]]

\* Lump.as_palette: struct.unpack('BBB', ...) raises on a slice shorter than
\* 3 bytes
AsPalette(data) ==
    IF \E i \in 0..(PaletteSize - 1) : Len(Slice(data, 3 * i, 3 * i + 3)) < 3
    THEN [ok |-> FALSE, val |-> <<>>]
    ELSE [ok |-> TRUE,
          val |-> [i \in 1..PaletteSize |->
                     LET t == Slice(data, 3 * (i - 1), 3 * (i - 1) + 3)
                     IN  <<t[1], t[2], t[3]>>]]

\* Bounds and inputs of the palette decoder.
MaxPayloadLen == 770

PayloadSeeds == {1, 7}
\* a payload of n bytes, byte k (0-based) being (seed * k + 3) mod 256
Payload(seed, n) == [k \in 1..n |-> (seed * (k - 1) + 3) % 256]

PalInit ==
    /\ PalOthersIdle
    /\ pal_pc = "lump"
    /\ \E sd \in PayloadSeeds, n \in 0..MaxPayloadLen : playpal_data = Payload(sd, n)
    /\ playpal = <<>>

\* palette = lump.as_palette()
DecodePalette ==
    /\ pal_pc = "lump"
    /\ LET r == AsPalette(playpal_data)
       IN  /\ playpal' = r.val
           /\ pal_pc' = IF r.ok THEN "decoded" ELSE "raised"
    /\ UNCHANGED <<playpal_data, palOthers>>

PalNext == DecodePalette

SpecPalette == PalInit /\ [][PalNext]_vars

\* C7: on a payload of at least 768 bytes Lump.as_palette returns exactly 256
\* triples, triple i being bytes 3i, 3i+1, 3i+2; on a shorter payload it
\* raises and returns no palette.
C7_PaletteBounds ==
    pal_pc # "lump" =>
        IF Len(playpal_data) >= 768
        THEN /\ pal_pc = "decoded"
             /\ Len(playpal) = 256
             /\ \A i \in 0..255 :
                   playpal[i + 1] = <<playpal_data[3 * i + 1], playpal_data[3 * i + 2],
                                      playpal_data[3 * i + 3]>>
        ELSE pal_pc = "raised" /\ playpal = <<>>

\* a payload longer than 768 bytes has been decoded; its last triple is bytes
\* 765..767
C7_Witness ==
    /\ pal_pc = "decoded"
    /\ Len(playpal_data) = 770
    /\ playpal[256] = <<(7 * 765 + 3) % 256, (7 * 766 + 3) % 256, (7 * 767 + 3) % 256>>

----------------------------------------------------------------------------
(* Renderer.                                                               *)

\* the value Texture.flatten gives a transparent cell
Transparent == -1

\* palette[c] of Python for c >= 0 (the only indices a bitmap holds besides
\* Transparent)
PaletteAt(pal, c) == pal[c + 1]

RECURSIVE RenderColumnNoTranspose(_, _, _, _, _)
\* the inner loop of render_paletted writing array[i][j] instead of array[j][i]
RenderColumnNoTranspose(array, pal, column, i, j) ==
    IF j >= Len(column) THEN [ok |-> TRUE, val |-> array]
    ELSE
      LET c == column[j + 1]
      IN  IF c = Transparent THEN RenderColumnNoTranspose(array, pal, column, i, j + 1)
          ELSE IF i >= Len(array) \/ j >= Len(array[i + 1]) \/ c >= Len(pal)
          THEN [ok |-> FALSE, val |-> <<>>]
          ELSE RenderColumnNoTranspose(
                   [array EXCEPT ![i + 1][j + 1] = PaletteAt(pal, c) \o <<255>>],
                   pal, column, i, j + 1)

RECURSIVE RenderColumn(_, _, _, _, _)
\* the inner loop of render_paletted: for j in range(len(pixels[i])), from j;
\* an index outside the array or the palette raises
RenderColumn(array, pal, column, i, j) ==
    IF j >= Len(column) THEN [ok |-> TRUE, val |-> array]
    ELSE
      LET c == column[j + 1]
      IN  IF c = Transparent THEN RenderColumn(array, pal, column, i, j + 1)
          ELSE IF j >= Len(array) \/ i >= Len(array[j + 1]) \/ c >= Len(pal)
          THEN [ok |-> FALSE, val |-> <<>>]
          ELSE RenderColumn([array EXCEPT ![j + 1][i + 1] = PaletteAt(pal, c) \o <<255>>],
                            pal, column, i, j + 1)

RECURSIVE RenderColumns(_, _, _, _)
\* the outer loop of render_paletted: for i in range(len(pixels)), from i
RenderColumns(array, pal, bitmap, i) ==
    IF i >= Len(bitmap) THEN [ok |-> TRUE, val |-> array]
    ELSE
      LET r == RenderColumn(array, pal, bitmap[i + 1], i, 0)
      IN  IF ~r.ok THEN r ELSE RenderColumns(r.val, pal, bitmap, i + 1)

\* render_paletted, up to PIL.Image.fromarray: the (rows, columns, 4) array.
\* pixels[0] raises on an empty bitmap.
RenderPaletted(pal, bitmap) ==
    IF bitmap = <<>> THEN [ok |-> FALSE, val |-> <<>>]
    ELSE RenderColumns([j \in 1..Len(bitmap[1]) |-> [i \in 1..Len(bitmap) |-> <<0, 0, 0, 0>>]],
                       pal, bitmap, 0)

\* Bounds and inputs of the renderer.
MaxBitmapCells == 6

\* cell values: transparent, the index of the spec's example, the last index
CellValues == {Transparent, 7, 255}

\* the column-major bitmaps of width w and height h
Bitmaps(w, h) == [1..w -> [1..h -> CellValues]]

\* two 256-entry palettes: the first has palette[7] = (200, 50, 10); the
\* second maps index 255 to black
Palettes(n) ==
    {[c \in 1..n |->
         IF c - 1 = 7 THEN <<200, 50, 10>> ELSE <<c - 1, 255 - (c - 1), (3 * (c - 1)) % 256>>],
     [c \in 1..n |-> <<c % 256, 0, 0>>]}

RenInit ==
    /\ RenOthersIdle
    /\ ren_pc = "bitmap"
    /\ palette \in Palettes(PaletteSize)
    \* width w >= 1 and height h >= 0 with at most MaxBitmapCells cells (a list
    \* of columns has no height when it is empty)
    /\ \E w \in 1..MaxBitmapCells, h \in 0..MaxBitmapCells :
          /\ w * h <= MaxBitmapCells
          /\ pixels \in Bitmaps(w, h)
    /\ image = <<>>

\* img = render_paletted(wad.palette, tex.flatten())
Render ==
    /\ ren_pc = "bitmap"
    /\ LET r == RenderPaletted(palette, pixels)
       IN  /\ image' = r.val
           /\ ren_pc' = IF r.ok THEN "rendered" ELSE "raised"
    /\ UNCHANGED <<palette, pixels, renOthers>>

RenNext == Render

SpecRender == RenInit /\ [][RenNext]_vars

----------------------------------------------------------------------------
(* Compositor.                                                             *)

RECURSIVE DrawSpanNoOverwrite(_, _, _, _, _, _)
\* the pixel loop of Texture.flatten writing only cells that are still
\* transparent (first write wins)
DrawSpanNoOverwrite(bitmap, x, py, span, j, height) ==
    IF j >= Len(span.pixels) THEN bitmap
    ELSE
      LET y == py + span.offset + j
      IN  IF y < 0 THEN DrawSpanNoOverwrite(bitmap, x, py, span, j + 1, height)
          ELSE IF y >= height THEN bitmap
          ELSE DrawSpanNoOverwrite(
                   IF bitmap[x + 1][y + 1] = Transparent
                   THEN [bitmap EXCEPT ![x + 1][y + 1] = span.pixels[j + 1]]
                   ELSE bitmap,
                   x, py, span, j + 1, height)

RECURSIVE DrawSpan(_, _, _, _, _, _)
\* for j in range(len(span.pixels)), from j: continue above the bitmap, break
\* below it
DrawSpan(bitmap, x, py, span, j, height) ==
    IF j >= Len(span.pixels) THEN bitmap
    ELSE
      LET y == py + span.offset + j
      IN  IF y < 0 THEN DrawSpan(bitmap, x, py, span, j + 1, height)
          ELSE IF y >= height THEN bitmap
          ELSE DrawSpan([bitmap EXCEPT ![x + 1][y + 1] = span.pixels[j + 1]],
                        x, py, span, j + 1, height)

RECURSIVE DrawColumn(_, _, _, _, _, _)
\* for span in patch.columns[i], from the s-th span (0-based)
DrawColumn(bitmap, x, py, spans, s, height) ==
    IF s >= Len(spans) THEN bitmap
    ELSE DrawColumn(DrawSpan(bitmap, x, py, spans[s + 1], 0, height),
                    x, py, spans, s + 1, height)

RECURSIVE DrawPatch(_, _, _, _, _)
\* for i in range(patch.width), from i: continue left of the bitmap, break
\* right of it
DrawPatch(bitmap, tex_patch, i, width, height) ==
    IF i >= tex_patch.data.width THEN bitmap
    ELSE
      LET x == tex_patch.x + i
      IN  IF x < 0 THEN DrawPatch(bitmap, tex_patch, i + 1, width, height)
          ELSE IF x >= width THEN bitmap
          ELSE DrawPatch(DrawColumn(bitmap, x, tex_patch.y, tex_patch.data.columns[i + 1],
                                    0, height),
                         tex_patch, i + 1, width, height)

RECURSIVE DrawPatches(_, _, _, _, _)
\* for tex_patch in self.patches, from the k-th placement (0-based)
DrawPatches(bitmap, patches, k, width, height) ==
    IF k >= Len(patches) THEN bitmap
    ELSE DrawPatches(DrawPatch(bitmap, patches[k + 1], 0, width, height),
                     patches, k + 1, width, height)

RECURSIVE SpanStores(_, _, _, _, _, _)
\* the assignments pixels[x][y] = span.pixels[j] the pixel loop performs from
\* j on, in order: the indices used, the value stored and the pixel it is
\* (at: placement k, column i, span s, all 0-based)
SpanStores(at, x, py, span, j, height) ==
    IF j >= Len(span.pixels) THEN <<>>
    ELSE
      LET y == py + span.offset + j
      IN  IF y < 0 THEN SpanStores(at, x, py, span, j + 1, height)
          ELSE IF y >= height THEN <<>>
          ELSE <<[x |-> x, y |-> y, c |-> span.pixels[j + 1],
                  k |-> at.k, i |-> at.i, s |-> at.s, j |-> j]>>
                  \o SpanStores(at, x, py, span, j + 1, height)

RECURSIVE ColumnStores(_, _, _, _, _, _)
\* the assignments of the span loop, from the s-th span (0-based)
ColumnStores(at, x, py, spans, s, height) ==
    IF s >= Len(spans) THEN <<>>
    ELSE SpanStores([at EXCEPT !.s = s], x, py, spans[s + 1], 0, height)
            \o ColumnStores(at, x, py, spans, s + 1, height)

RECURSIVE PatchStoresBreakLeft(_, _, _, _, _)
\* the column loop stopping at a column left of the bitmap (break for
\* continue)
PatchStoresBreakLeft(k, tex_patch, i, width, height) ==
    IF i >= tex_patch.data.width THEN <<>>
    ELSE
      LET x == tex_patch.x + i
      IN  IF x < 0 \/ x >= width THEN <<>>
          ELSE ColumnStores([k |-> k, i |-> i, s |-> 0], x, tex_patch.y,
                            tex_patch.data.columns[i + 1], 0, height)
                  \o PatchStoresBreakLeft(k, tex_patch, i + 1, width, height)

RECURSIVE PatchStores(_, _, _, _, _)
\* the assignments of the column loop of the k-th placement (0-based), from
\* column i
PatchStores(k, tex_patch, i, width, height) ==
    IF i >= tex_patch.data.width THEN <<>>
    ELSE
      LET x == tex_patch.x + i
      IN  IF x < 0 THEN PatchStores(k, tex_patch, i + 1, width, height)
          ELSE IF x >= width THEN <<>>
          ELSE ColumnStores([k |-> k, i |-> i, s |-> 0], x, tex_patch.y,
                            tex_patch.data.columns[i + 1], 0, height)
                  \o PatchStores(k, tex_patch, i + 1, width, height)

RECURSIVE PatchesStores(_, _, _, _)
\* the assignments of the placement loop, from the k-th placement (0-based)
PatchesStores(patches, k, width, height) ==
    IF k >= Len(patches) THEN <<>>
    ELSE PatchStores(k, patches[k + 1], 0, width, height)
            \o PatchesStores(patches, k + 1, width, height)

\* every assignment pixels[x][y] = ... of Texture.flatten, in order
Stores(tex) == PatchesStores(tex.patches, 0, tex.width, tex.height)

\* Python's list[i] = v: i from -len(list) to len(list) - 1, a negative i
\* counted from the end; IndexError outside
SetItem(list, i, v) ==
    IF i >= Len(list) \/ i < 0 - Len(list) THEN [ok |-> FALSE, val |-> list]
    ELSE [ok |-> TRUE, val |-> [list EXCEPT ![(IF i < 0 THEN i + Len(list) ELSE i) + 1] = v]]

\* Python's pixels[x][y] = c
SetPixel(bitmap, x, y, c) ==
    IF x >= Len(bitmap) \/ x < 0 - Len(bitmap) THEN [ok |-> FALSE, val |-> bitmap]
    ELSE LET column == (IF x < 0 THEN x + Len(bitmap) ELSE x) + 1
         IN  [ok  |-> SetItem(bitmap[column], y, c).ok,
              val |-> [bitmap EXCEPT ![column] = SetItem(bitmap[column], y, c).val]]

RECURSIVE Replay(_, _, _)
\* the bitmap after the assignments log[n..] as Python performs them; ok is
\* FALSE when one of them raises IndexError
Replay(bitmap, log, n) ==
    IF n > Len(log) THEN [ok |-> TRUE, val |-> bitmap]
    ELSE IF ~SetPixel(bitmap, log[n].x, log[n].y, log[n].c).ok
    THEN [ok |-> FALSE, val |-> bitmap]
    ELSE Replay(SetPixel(bitmap, log[n].x, log[n].y, log[n].c).val, log, n + 1)

\* Texture.flatten
Flatten(tex) ==
    DrawPatches([x \in 1..tex.width |-> [y \in 1..tex.height |-> Transparent]],
                tex.patches, 0, tex.width, tex.height)

\* Bounds and inputs of the compositor.
MaxTexWidth == 2
MaxTexHeight == 2
MaxPlacements == 2

\* decoded patches (as Patch.from_bytes builds them: width columns each):
\* two columns; one column with a gap between its spans; one column whose
\* second span starts inside its first; two columns, the second span of the
\* first one starting above its first span
FlatPatches ==
    {[width |-> 2, height |-> 2, x |-> 0, y |-> 0,
      columns |-> <<<<[offset |-> 0, pixels |-> <<1, 2>>]>>,
                    <<[offset |-> 1, pixels |-> <<3>>]>>>>],
     [width |-> 1, height |-> 3, x |-> 0, y |-> 0,
      columns |-> <<<<[offset |-> 0, pixels |-> <<4>>], [offset |-> 2, pixels |-> <<5>>]>>>>],
     [width |-> 1, height |-> 2, x |-> 0, y |-> 0,
      columns |-> <<<<[offset |-> 0, pixels |-> <<6, 7>>], [offset |-> 1, pixels |-> <<8>>]>>>>],
     [width |-> 2, height |-> 3, x |-> 0, y |-> 0,
      columns |-> <<<<[offset |-> 1, pixels |-> <<9, 10>>], [offset |-> 0, pixels |-> <<11>>]>>,
                    <<[offset |-> 0, pixels |-> <<12, 13>>]>>>>]}

\* placement offsets (x, y), the ends of the signed 16-bit range included
PlacementOffsets ==
    {<<-1, -1>>, <<0, -1>>, <<0, 0>>, <<1, 0>>, <<0, 1>>, <<-1, 1>>, <<-32768, 32767>>}

\* TexturePatch values; num and name play no part in flatten
TexturePatches ==
    {[x |-> o[1], y |-> o[2], num |-> 0, name |-> <<>>, data |-> d] :
        o \in PlacementOffsets, d \in FlatPatches}

\* the textures of w x h cells with n placements
Textures(w, h, n) ==
    {[name |-> <<84>>, width |-> w, height |-> h, patches |-> ps] :
        ps \in [1..n -> TexturePatches]}

FlatInit ==
    /\ FlatOthersIdle
    /\ flat_pc = "texture"
    /\ \E w \in 0..MaxTexWidth, h \in 0..MaxTexHeight, n \in 0..MaxPlacements :
          texture \in Textures(w, h, n)
    /\ flat = <<>>
    /\ stores = <<>>

\* tex.flatten()
DoFlatten ==
    /\ flat_pc = "texture"
    /\ flat' = Flatten(texture)
    /\ stores' = Stores(texture)
    /\ flat_pc' = "flattened"
    /\ UNCHANGED <<texture, flatOthers>>

FlatNext == DoFlatten

SpecFlatten == FlatInit /\ [][FlatNext]_vars

\* the values the k-th placement (1-based) has for cell (x, y): the pixels j
\* of the spans of its column i with p.x + i = x and p.y + span.offset + j = y
Contributions(tex, k, x, y) ==
    LET p == tex.patches[k]
        SpanValues(span) ==
            {span.pixels[j] : j \in {m \in 1..Len(span.pixels) : p.y + span.offset + (m - 1) = y}}
        ColumnValues(col) == UNION {SpanValues(col[s]) : s \in 1..Len(col)}
    IN  UNION {ColumnValues(p.data.columns[i]) :
                  i \in {m \in 1..Len(p.data.columns) : p.x + (m - 1) = x}}

\* the placements (1-based) with a pixel for cell (x, y)
Covering(tex, x, y) == {k \in 1..Len(tex.patches) : Contributions(tex, k, x, y) # {}}

\* C5: after Texture.flatten the bitmap has width columns of height cells;
\* a cell (x, y) holds a pixel value of the last placement, in declaration
\* order, that has a span pixel mapping to (x, y), and Transparent when no
\* placement has one.
C5_LastWriteWins ==
    flat_pc = "flattened" =>
        /\ Len(flat) = texture.width
        /\ \A x \in 0..(texture.width - 1) :
              /\ Len(flat[x + 1]) = texture.height
              /\ \A y \in 0..(texture.height - 1) :
                    LET ks == Covering(texture, x, y)
                    IN  IF ks = {} THEN flat[x + 1][y + 1] = Transparent
                        ELSE LET last == CHOOSE k \in ks : \A m \in ks : m <= k
                             IN  flat[x + 1][y + 1] \in Contributions(texture, last, x, y)

\* two placements overlap at cell (0, 0) and the second one's pixel is there,
\* while cell (1, 0) was touched by neither
C5_Witness ==
    /\ flat_pc = "flattened"
    /\ texture.width = 2 /\ texture.height = 2
    /\ Covering(texture, 0, 0) = {1, 2}
    /\ Contributions(texture, 1, 0, 0) = {1}
    /\ Contributions(texture, 2, 0, 0) = {4}
    /\ flat[1][1] = 4
    /\ Covering(texture, 1, 0) = {}
    /\ flat[2][1] = Transparent

\* the target cell of pixel j of span s of column i of the k-th placement
\* (all 0-based)
TargetX(tex, k, i) == tex.patches[k + 1].x + i
TargetY(tex, k, i, s, j) ==
    tex.patches[k + 1].y + tex.patches[k + 1].data.columns[i + 1][s + 1].offset + j
Inside(tex, x, y) == 0 <= x /\ x < tex.width /\ 0 <= y /\ y < tex.height

\* the pixels of the patches of tex, as <<k, i, s, j>>
PatchPixels(tex) ==
    UNION {UNION {UNION {{<<k, i, s, j>> :
                            j \in 0..(Len(tex.patches[k + 1].data.columns[i + 1][s + 1].pixels) - 1)} :
                         s \in 0..(Len(tex.patches[k + 1].data.columns[i + 1]) - 1)} :
                  i \in 0..(tex.patches[k + 1].data.width - 1)} :
           k \in 0..(Len(tex.patches) - 1)}

\* C11: Texture.flatten stores only into cells 0 <= x < width, 0 <= y <
\* height: no store raises and none lands on another cell than its target
\* (performed with Python's indexing, the stores give the bitmap returned);
\* every store is a patch pixel stored at its target cell; and every patch
\* pixel whose target cell is inside the bitmap is stored, whatever columns
\* or pixels before it were left of, above, right of or below the bitmap.
C11_CompositorClipping ==
    flat_pc = "flattened" =>
        /\ \A n \in 1..Len(stores) :
              /\ Inside(texture, stores[n].x, stores[n].y)
              /\ <<stores[n].k, stores[n].i, stores[n].s, stores[n].j>> \in PatchPixels(texture)
              /\ stores[n].x = TargetX(texture, stores[n].k, stores[n].i)
              /\ stores[n].y = TargetY(texture, stores[n].k, stores[n].i, stores[n].s, stores[n].j)
              /\ stores[n].c = texture.patches[stores[n].k + 1].data
                                  .columns[stores[n].i + 1][stores[n].s + 1].pixels[stores[n].j + 1]
        /\ Replay([x \in 1..texture.width |-> [y \in 1..texture.height |-> Transparent]],
                  stores, 1)
              = [ok |-> TRUE, val |-> flat]
        /\ \A px \in PatchPixels(texture) :
              Inside(texture, TargetX(texture, px[1], px[2]),
                     TargetY(texture, px[1], px[2], px[3], px[4]))
              => \E n \in 1..Len(stores) :
                    <<stores[n].k, stores[n].i, stores[n].s, stores[n].j>> = px

\* a 1 x 2 texture flattened where a column is stored after a column left of
\* the bitmap, a pixel after a pixel above it, and a span after a span that
\* ran below it, while some column was right of the bitmap
C11_Witness ==
    /\ flat_pc = "flattened"
    /\ texture.width = 1 /\ texture.height = 2
    /\ \E n \in 1..Len(stores) :
          stores[n].i = 1 /\ TargetX(texture, stores[n].k, 0) < 0
    /\ \E n \in 1..Len(stores) :
          stores[n].j = 1 /\ TargetY(texture, stores[n].k, stores[n].i, stores[n].s, 0) < 0
    /\ \E n \in 1..Len(stores) :
          /\ stores[n].s = 1
          /\ \E j \in 0..(Len(texture.patches[stores[n].k + 1].data
                                  .columns[stores[n].i + 1][1].pixels) - 1) :
                TargetY(texture, stores[n].k, stores[n].i, 0, j) >= texture.height
    /\ \E px \in PatchPixels(texture) : TargetX(texture, px[1], px[2]) >= texture.width

----------------------------------------------------------------------------
(* Picture codec.                                                          *)

\* Span.to_bytes: struct.pack('BBB', offset, len(pixels), 0) + pixels + b'\x00'
SpanToBytes(span) == <<span.offset, Len(span.pixels), 0>> \o span.pixels \o <<0>>

\* one column of Patch.to_bytes: its spans, then the 0xFF sentinel
ColumnToBytes(col) == Join([k \in 1..Len(col) |-> SpanToBytes(col[k])]) \o <<255>>

RECURSIVE SumLen(_, _)
\* total length of the first n byte strings of parts
SumLen(parts, n) == IF n = 0 THEN 0 ELSE Len(parts[n]) + SumLen(parts, n - 1)

\* the column offset table of Patch.to_bytes: 4 * width zero bytes, entry i
\* overwritten with the start of column i
PointerTable(columns, width) ==
    Join([i \in 1..width |->
            IF i <= Len(columns)
            THEN PackU32(8 + 4 * width + SumLen(columns, i - 1))
            ELSE <<0, 0, 0, 0>>])

\* struct.pack raises on a value outside the field's range, and pack_into on
\* a column beyond the table
ToBytesRaises(p) ==
    \/ p.width < 0 \/ p.width > 65535
    \/ p.height < 0 \/ p.height > 65535
    \/ p.x < -32768 \/ p.x > 32767
    \/ p.y < -32768 \/ p.y > 32767
    \/ Len(p.columns) > p.width
    \/ \E i \in 1..Len(p.columns) : \E k \in 1..Len(p.columns[i]) :
          \/ p.columns[i][k].offset < 0 \/ p.columns[i][k].offset > 255
          \/ Len(p.columns[i][k].pixels) > 255

\* Patch.to_bytes
ToBytes(p) ==
    IF ToBytesRaises(p) THEN [ok |-> FALSE, val |-> <<>>]
    ELSE
      LET header  == PackU16(p.width) \o PackU16(p.height) \o PackI16(p.x) \o PackI16(p.y)
          columns == [i \in 1..Len(p.columns) |-> ColumnToBytes(p.columns[i])]
      IN  [ok |-> TRUE,
           val |-> header \o PointerTable(columns, p.width) \o Join(columns)]

RECURSIVE ReadSpansNoPad(_, _, _)
\* ReadSpans without the skip of the unused byte that follows the pixels
ReadSpansNoPad(data, ofs, spans) ==
    IF ofs >= Len(data) THEN [ok |-> FALSE, val |-> <<>>]
    ELSE IF data[ofs + 1] = 255 THEN [ok |-> TRUE, val |-> spans]
    ELSE IF ofs + 2 > Len(data) THEN [ok |-> FALSE, val |-> <<>>]
    ELSE
      LET offset == data[ofs + 1]
          size   == data[ofs + 2]
      IN  ReadSpansNoPad(data, ofs + 3 + size,
                         Append(spans, [offset |-> offset,
                                        pixels |-> Slice(data, ofs + 3, ofs + 3 + size)]))

RECURSIVE ReadSpans(_, _, _)
\* the while loop of Patch.from_bytes for one column, from byte offset ofs
ReadSpans(data, ofs, spans) ==
    IF ofs >= Len(data) THEN [ok |-> FALSE, val |-> <<>>]
    ELSE IF data[ofs + 1] = 255 THEN [ok |-> TRUE, val |-> spans]
    ELSE IF ofs + 2 > Len(data) THEN [ok |-> FALSE, val |-> <<>>]
    ELSE
      LET offset == data[ofs + 1]
          size   == data[ofs + 2]
      IN  ReadSpans(data, ofs + 3 + size + 1,
                    Append(spans, [offset |-> offset,
                                   pixels |-> Slice(data, ofs + 3, ofs + 3 + size)]))

\* the body of the for loop of Patch.from_bytes: column i (0-based)
ReadColumn(data, i) ==
    LET pofs == 8 + 4 * i
    IN  IF pofs + 4 > Len(data) THEN [ok |-> FALSE, val |-> <<>>]
        ELSE ReadSpans(data, UnpackU32(Slice(data, pofs, pofs + 4)), <<>>)

\* Patch.from_bytes
FromBytes(data) ==
    IF Len(data) < 8 THEN [ok |-> FALSE, val |-> <<>>]
    ELSE
      LET width   == UnpackU16(Slice(data, 0, 2))
          columns == [i \in 1..width |-> ReadColumn(data, i - 1)]
      IN  IF \E i \in 1..width : ~columns[i].ok
          THEN [ok |-> FALSE, val |-> <<>>]
          ELSE [ok |-> TRUE,
                val |-> [width   |-> width,
                         height  |-> UnpackU16(Slice(data, 2, 4)),
                         x       |-> UnpackI16(Slice(data, 4, 6)),
                         y       |-> UnpackI16(Slice(data, 6, 8)),
                         columns |-> [i \in 1..width |-> columns[i].val]]]

\* Bounds and inputs of the picture codec.
MaxWidth == 2

\* pixel runs: empty, and one holding the sentinel value 0xFF as a pixel
PixelRuns == {<<>>, <<255, 0>>}
\* start rows: an ordinary row, and 255 (the data model's largest startRow)
SpanRows == {2, 255}
Spans == [offset : SpanRows, pixels : PixelRuns]
Columns == {<<>>} \cup {<<s>> : s \in Spans} \cup {<<s, t>> : s \in Spans, t \in Spans}
Headers == {[height |-> 1, x |-> -1, y |-> 0], [height |-> 300, x |-> 0, y |-> -32768]}

\* the pictures of the data model of width w: exactly w columns
Pictures(w) ==
    {[width |-> w, height |-> h.height, x |-> h.x, y |-> h.y, columns |-> c] :
        h \in Headers, c \in [1..w -> Columns]}

PicInit ==
    /\ PicOthersIdle
    /\ pic_pc = "picture"
    /\ \E w \in 0..MaxWidth : picture \in Pictures(w)
    /\ lump_data = <<>>
    /\ patch = NoPatch
    /\ round_trip = <<>>

\* B := picture.to_bytes(), the bytes stored as a patch lump
Encode ==
    /\ pic_pc = "picture"
    /\ LET r == ToBytes(picture)
       IN  /\ lump_data' = r.val
           /\ pic_pc' = IF r.ok THEN "lump" ELSE "raised"
    /\ UNCHANGED <<picture, patch, round_trip, picOthers>>

\* patch = lump.as_patch()
AsPatch ==
    /\ pic_pc = "lump"
    /\ LET r == FromBytes(lump_data)
       IN  /\ patch' = IF r.ok THEN r.val ELSE NoPatch
           /\ pic_pc' = IF r.ok THEN "patch" ELSE "raised"
    /\ UNCHANGED <<picture, lump_data, round_trip, picOthers>>

\* round_trip = patch.to_bytes()
RoundTrip ==
    /\ pic_pc = "patch"
    /\ LET r == ToBytes(patch)
       IN  /\ round_trip' = r.val
           /\ pic_pc' = IF r.ok THEN "done" ELSE "raised"
    /\ UNCHANGED <<picture, lump_data, patch, picOthers>>

PicNext == Encode \/ AsPatch \/ RoundTrip

SpecPicture == PicInit /\ [][PicNext]_vars

\* no span of the picture starts at row 255
NoSentinelRow(p) ==
    \A i \in 1..Len(p.columns) : \A k \in 1..Len(p.columns[i]) :
        p.columns[i][k].offset # 255

\* C1 as stated: for every B emitted by Patch.to_bytes on a picture,
\* Patch.from_bytes(B).to_bytes() = B.  Fails: the call raises, or the bytes
\* differ, when a span starts at row 255.
C1_RoundTripAnyPicture ==
    pic_pc \in {"patch", "done", "raised"} =>
        (pic_pc # "raised" /\ (pic_pc = "done" => round_trip = lump_data))

\* C1 amended: for every B emitted by Patch.to_bytes on a picture none of whose
\* spans starts at row 255 (the sentinel value), decoding B succeeds and
\* Patch.from_bytes(B).to_bytes() equals B byte for byte.
C1_RoundTrip ==
    (pic_pc \in {"patch", "done", "raised"} /\ NoSentinelRow(picture)) =>
        /\ pic_pc # "raised"
        /\ patch = picture
        /\ pic_pc = "done" => round_trip = lump_data

\* a two-column picture with two spans in a column and 0xFF among the pixels
\* has made the round trip
C1_Witness ==
    /\ pic_pc = "done"
    /\ NoSentinelRow(picture)
    /\ picture.width = 2
    /\ Len(picture.columns[1]) = 2
    /\ picture.columns[2] = <<[offset |-> 2, pixels |-> <<255, 0>>]>>
    /\ round_trip = lump_data
    /\ Len(lump_data) > 16

----------------------------------------------------------------------------
(* Memoized properties of an archive.                                      *)

\* 'PNAMES'
PNAMES == <<80, 78, 65, 77, 69, 83>>

\* `if self._x:` -- the slot is set and its list or dict is not empty
Truthy(slot) == slot.set /\ DOMAIN slot.val # {}

\* the result of a property access: the value (or a raise), the archive with
\* its cache slots as the access leaves them, and which values were computed
\* from lump bytes
Raise(w, n) == [ok |-> FALSE, val |-> <<>>, wad |-> w, computed |-> n]
Return(v, w, n) == [ok |-> TRUE, val |-> v, wad |-> w, computed |-> n]

\* Wad.pnames
GetPnames(w) ==
    IF Truthy(w._pnames) THEN Return(w._pnames.val, w, NoneComputed)
    ELSE IF PNAMES \notin DOMAIN w.lump_lookup THEN Raise(w, NoneComputed)
    ELSE
      LET data  == w.lump_lookup[PNAMES].data
          size  == UnpackU32(Slice(data, 0, 4))
          names == [i \in 1..size |-> c_str(Slice(data, 4 + 8 * (i - 1), 4 + 8 * (i - 1) + 8))]
      IN  IF Len(data) < 4 THEN Raise(w, NoneComputed)
          ELSE IF \E i \in 1..size : ~names[i].ok THEN Raise(w, NoneComputed)
          ELSE LET pnames == [i \in 1..size |-> Upper(names[i].val)]
               IN  Return(pnames, [w EXCEPT !._pnames = Some(pnames)],
                          [NoneComputed EXCEPT !.pnames = 1])

\* Wad.palette
GetPalette(w) ==
    IF Truthy(w._playpal) THEN Return(w._playpal.val, w, NoneComputed)
    ELSE IF PLAYPAL \notin DOMAIN w.lump_lookup THEN Raise(w, NoneComputed)
    ELSE
      LET r == AsPalette(w.lump_lookup[PLAYPAL].data)
      IN  IF ~r.ok THEN Raise(w, NoneComputed)
          ELSE Return(r.val, [w EXCEPT !._playpal = Some(r.val)],
                      [NoneComputed EXCEPT !.playpal = 1])

\* Wad.patch_map: every name of self.pnames is looked up and decoded before
\* the map is stored; a name without a lump, or a lump that does not decode,
\* raises out of the property
GetPatchMap(w) ==
    IF Truthy(w._patch_map) THEN Return(w._patch_map.val, w, NoneComputed)
    ELSE
      LET pn == GetPnames(w)
          names == {pn.val[i] : i \in 1..Len(pn.val)}
      IN  IF ~pn.ok THEN pn
          ELSE IF \E n \in names : n \notin DOMAIN w.lump_lookup
          THEN Raise(pn.wad, pn.computed)
          ELSE IF \E n \in names : ~FromBytes(w.lump_lookup[n].data).ok
          THEN Raise(pn.wad, pn.computed)
          ELSE LET patch_map == [n \in names |-> FromBytes(w.lump_lookup[n].data).val]
               IN  Return(patch_map, [pn.wad EXCEPT !._patch_map = Some(patch_map)],
                          [pn.computed EXCEPT !.patch_map = 1])

\* Bounds and inputs of the memoized properties.
MaxAccesses == 3

\* a name as an 8-byte, NUL-padded field
NameField(name) == name \o [k \in 1..(8 - Len(name)) |-> 0]

\* the patch lumps' names 'P0', 'P1' and, in lower case, 'p1'
P0 == <<80, 48>>
P1 == <<80, 49>>
p1 == <<112, 49>>

\* a PNAMES payload: the count, then the names
PnamesBytes(names) == PackU32(Len(names)) \o Join([k \in 1..Len(names) |-> NameField(names[k])])

\* the bytes of a one-column patch
PatchBytes(pixel) ==
    ToBytes([width |-> 1, height |-> 2, x |-> 0, y |-> 0,
             columns |-> <<<<[offset |-> 0, pixels |-> <<pixel, pixel>>]>>>>]).val

\* a lump of the lookup
MakeLump(name, position, data) == [name |-> name, position |-> position, data |-> data]

\* an archive: pn, pal, d1 are the payloads of PNAMES, PLAYPAL and P1, or
\* Absent for no such lump; P0 is always there
Absent == <<-1>>
MakeArchive(pn, pal, d1) ==
    LET lumps == <<MakeLump(P0, 0, PatchBytes(1))>>
                    \o (IF pn = Absent THEN <<>> ELSE <<MakeLump(PNAMES, 1, pn)>>)
                    \o (IF pal = Absent THEN <<>> ELSE <<MakeLump(PLAYPAL, 2, pal)>>)
                    \o (IF d1 = Absent THEN <<>> ELSE <<MakeLump(P1, 3, d1)>>)
    IN  [NoWad EXCEPT !.lumps = lumps, !.lump_lookup = LumpLookup(lumps)]

\* PNAMES payloads: none, too short, no names, one name, two names
PnamesPayloads ==
    {Absent, <<1, 0>>, PnamesBytes(<<>>), PnamesBytes(<<P0>>), PnamesBytes(<<P0, p1>>)}
\* PLAYPAL payloads: none, one byte short, exact
PlaypalPayloads(n) == {Absent, Payload(1, 3 * n - 1), Payload(1, 3 * n)}
\* P1 payloads: none, not a patch, a patch
P1Payloads == {Absent, <<1, 0>>, PatchBytes(2)}

CacheInit ==
    /\ CacheOthersIdle
    /\ cache_pc = "loaded"
    /\ \E pn \in PnamesPayloads, pal \in PlaypalPayloads(PaletteSize), d1 \in P1Payloads :
          archive = MakeArchive(pn, pal, d1)
    /\ accesses = 0
    /\ computed = NoneComputed
    /\ returned = NoReturn

\* wad.pnames
AccessPnames ==
    /\ accesses < MaxAccesses
    /\ LET r == GetPnames(archive)
       IN  /\ archive' = r.wad
           /\ computed' = [k \in DOMAIN computed |-> computed[k] + r.computed[k]]
           /\ returned' = [property |-> "pnames", ok |-> r.ok, val |-> r.val]
    /\ accesses' = accesses + 1
    /\ UNCHANGED <<cache_pc, cacheOthers>>

\* wad.palette
AccessPalette ==
    /\ accesses < MaxAccesses
    /\ LET r == GetPalette(archive)
       IN  /\ archive' = r.wad
           /\ computed' = [k \in DOMAIN computed |-> computed[k] + r.computed[k]]
           /\ returned' = [property |-> "palette", ok |-> r.ok, val |-> r.val]
    /\ accesses' = accesses + 1
    /\ UNCHANGED <<cache_pc, cacheOthers>>

\* wad.patch_map
AccessPatchMap ==
    /\ accesses < MaxAccesses
    /\ LET r == GetPatchMap(archive)
       IN  /\ archive' = r.wad
           /\ computed' = [k \in DOMAIN computed |-> computed[k] + r.computed[k]]
           /\ returned' = [property |-> "patch_map", ok |-> r.ok, val |-> r.val]
    /\ accesses' = accesses + 1
    /\ UNCHANGED <<cache_pc, cacheOthers>>

CacheNext == AccessPnames \/ AccessPalette \/ AccessPatchMap

SpecCache == CacheInit /\ [][CacheNext]_vars

\* C8 as stated: over any sequence of accesses on one archive, each of
\* pnames, palette and patch_map is computed from the lump bytes at most
\* once, also when the computed value is empty.  Fails: an empty list or dict
\* in the slot is falsy, so every access computes it again.
C8_ComputedAtMostOnce ==
    /\ computed.pnames <= 1
    /\ computed.playpal <= 1
    /\ computed.patch_map <= 1

----------------------------------------------------------------------------
(* Texture directory decoder.                                              *)

\* one pass of the placement loop, i in range(pcount): the record rec is
\* unpacked, then wad.pnames[pnum] (pn: what wad.pnames gives) and
\* wad.patch_map[pname] (pm: what wad.patch_map gives after it) are looked
\* up.  loop is the loop so far: its patches, the archive, the value of i.
ReadPlacement(loop, rec, pn, pm, i) ==
    IF Len(rec) < 6 THEN [loop EXCEPT !.ok = FALSE, !.i = i]
    ELSE IF ~pn.ok THEN [loop EXCEPT !.ok = FALSE, !.i = i, !.wad = pn.wad]
    ELSE IF UnpackU16(Slice(rec, 4, 6)) >= Len(pn.val)
    THEN [loop EXCEPT !.ok = FALSE, !.i = i, !.wad = pn.wad]
    ELSE IF ~pm.ok THEN [loop EXCEPT !.ok = FALSE, !.i = i, !.wad = pm.wad]
    ELSE [loop EXCEPT !.i = i, !.wad = pm.wad,
                      !.val = Append(@, [x    |-> UnpackU16(Slice(rec, 0, 2)),
                                         y    |-> UnpackU16(Slice(rec, 2, 4)),
                                         num  |-> UnpackU16(Slice(rec, 4, 6)),
                                         name |-> pn.val[UnpackU16(Slice(rec, 4, 6)) + 1],
                                         data |-> pm.val[pn.val[UnpackU16(Slice(rec, 4, 6)) + 1]]])]

RECURSIVE ReadPlacements(_, _, _, _, _)
\* for i in range(pcount), from i: the placement records of the texture at
\* offset; the loop ends at the first pass that raises.  loop.i is i as the
\* loop leaves it (the loop reuses the i of the directory loop).
ReadPlacements(loop, data, offset, pcount, i) ==
    IF ~loop.ok \/ i >= pcount THEN loop
    ELSE ReadPlacements(ReadPlacement(loop,
                                      Slice(data, offset + 22 + 10 * i, offset + 22 + 10 * i + 6),
                                      GetPnames(loop.wad),
                                      GetPatchMap(GetPnames(loop.wad).wad),
                                      i),
                        data, offset, pcount, i + 1)

\* the end of the try block: the texture is built from its header and its
\* placements ps, or the exception of the placement loop leaves the block
\* with the name read and i as the loop left it
BuildTexture(name, hdr, ps) ==
    IF ~ps.ok
    THEN [ok |-> FALSE, tex |-> NoTexture, name |-> Some(name), i |-> ps.i, wad |-> ps.wad]
    ELSE [ok |-> TRUE,
          tex |-> [name    |-> name,
                   width   |-> UnpackU16(Slice(hdr, 12, 14)),
                   height  |-> UnpackU16(Slice(hdr, 14, 16)),
                   patches |-> ps.val],
          name |-> Some(name), i |-> ps.i, wad |-> ps.wad]

\* the try block of Texture.load_textures for the directory entry i at
\* offset: the texture, or the name read so far (None when it was not) and
\* the value of i when the exception was raised
ReadTexture(w, data, offset, i) ==
    LET hdr  == Slice(data, offset, offset + 22)
        name == c_str(Slice(hdr, 0, 8))
    IN  IF Len(hdr) < 22 \/ ~name.ok
        THEN [ok |-> FALSE, tex |-> NoTexture, name |-> None, i |-> i, wad |-> w]
        ELSE BuildTexture(name.val, hdr,
                          ReadPlacements([ok |-> TRUE, val |-> <<>>, wad |-> w, i |-> i],
                                         data, offset, UnpackU16(Slice(hdr, 20, 22)), 0))

\* what the except block prints for a failed entry: the texture's name, or
\* '#' and i when the name is None or empty
Failure(name, i) ==
    IF ~name.set \/ name.val = <<>>
    THEN [by |-> "ordinal", name |-> <<>>, ordinal |-> i]
    ELSE [by |-> "name", name |-> name.val, ordinal |-> -1]

\* one pass of the directory loop: r is what the try block gave; the
\* texture is appended, or the except block reports the failure
TryTexture(loop, r) ==
    IF r.ok
    THEN [loop EXCEPT !.wad = r.wad, !.textures = Append(@, r.tex)]
    ELSE [loop EXCEPT !.wad = r.wad, !.failures = Append(@, Failure(r.name, r.i))]

RECURSIVE ReadTextures(_, _, _, _)
\* for i, offset in enumerate(directory), from i
ReadTextures(loop, data, directory, i) ==
    IF i >= Len(directory) THEN loop
    ELSE ReadTextures(TryTexture(loop, ReadTexture(loop.wad, data, directory[i + 1], i)),
                      data, directory, i + 1)

\* Texture.load_textures: struct.unpack raises on fewer than 4 bytes, and
\* array('I', ...) on a directory that is cut inside an offset
LoadTextures(w, data) ==
    LET dir_len == UnpackU32(Slice(data, 0, 4))
        table   == Slice(data, 4, 4 * (dir_len + 1))
        directory == [k \in 1..(Len(table) \div 4) |->
                        UnpackU32(Slice(table, 4 * (k - 1), 4 * k))]
    IN  IF Len(data) < 4 \/ Len(table) % 4 # 0
        THEN [ok |-> FALSE, textures |-> <<>>, failures |-> <<>>, wad |-> w]
        ELSE ReadTextures([ok |-> TRUE, textures |-> <<>>, failures |-> <<>>, wad |-> w],
                          data, directory, 0)

\* Bounds and inputs of the texture directory decoder.
MaxTextures == 3

\* an offset no texture lump of the model reaches
BadOffset == 60000

\* placement records (x field, y field, patch index field): patch indices 0
\* and 1 name the two entries of PNAMES, 7 is out of range; 65535 and 65534
\* are the 16-bit patterns of -1 and -2
PlacementLists ==
    {<<>>, <<<<0, 0, 0>>>>, <<<<0, 0, 1>>>>, <<<<0, 0, 7>>>>, <<<<65535, 65534, 0>>>>,
     <<<<0, 3, 0>>, <<65535, 1, 1>>>>}

\* the directory entry of the k-th texture (0-based): a record named 'T'k
\* with the placements ps, or an offset outside the lump
TextureEntries(k) ==
    {[bad |-> TRUE, name |-> <<>>, placements |-> <<>>]}
        \cup {[bad |-> FALSE, name |-> <<84, 48 + k>>, placements |-> ps] : ps \in PlacementLists}

\* a texture record: '8sIHHIH', then 10 bytes for each placement
RecordBytes(e) ==
    IF e.bad THEN <<>>
    ELSE NameField(e.name) \o PackU32(0) \o PackU16(64) \o PackU16(128) \o PackU32(0)
            \o PackU16(Len(e.placements))
            \o Join([j \in 1..Len(e.placements) |->
                        PackU16(e.placements[j][1]) \o PackU16(e.placements[j][2])
                            \o PackU16(e.placements[j][3]) \o <<0, 0, 0, 0>>])

\* a TEXTUREx payload: the count, the offsets, the records
TextureBytes(entries) ==
    LET records == [k \in 1..Len(entries) |-> RecordBytes(entries[k])]
    IN  PackU32(Len(entries))
            \o Join([k \in 1..Len(entries) |->
                        PackU32(IF entries[k].bad THEN BadOffset
                                ELSE 4 + 4 * Len(entries) + SumLen(records, k - 1))])
            \o Join(records)

TexInit ==
    /\ TexOthersIdle
    /\ tex_pc = "lump"
    /\ \E d1 \in P1Payloads : tex_wad = MakeArchive(PnamesBytes(<<P0, p1>>), Absent, d1)
    /\ \E n \in 0..MaxTextures :
          \E es \in {f \in [0..(n - 1) -> UNION {TextureEntries(k) : k \in 0..(n - 1)}] :
                        \A k \in 0..(n - 1) : f[k] \in TextureEntries(k)} :
              tex_data = TextureBytes([k \in 1..n |-> es[k - 1]])
    /\ textures = <<>>
    /\ failures = <<>>

\* lump.as_textures(wad)
AsTextures ==
    /\ tex_pc = "lump"
    /\ LET r == LoadTextures(tex_wad, tex_data)
       IN  /\ tex_wad' = r.wad
           /\ textures' = r.textures
           /\ failures' = r.failures
           /\ tex_pc' = IF r.ok THEN "done" ELSE "raised"
    /\ UNCHANGED <<tex_data, texOthers>>

TexNext == AsTextures

SpecTextures == TexInit /\ [][TexNext]_vars

\* the directory of a texture lump, as its bytes declare it
DeclaredTextures(data) == UnpackU32(Slice(data, 0, 4))
DeclaredTextureOffset(data, k) == UnpackU32(Slice(data, 4 + 4 * k, 8 + 4 * k))
\* the 22-byte record header of entry k (0-based) lies inside the lump and
\* its name is ASCII
Readable(data, k) ==
    /\ DeclaredTextureOffset(data, k) + 22 <= Len(data)
    /\ c_str(Slice(data, DeclaredTextureOffset(data, k), DeclaredTextureOffset(data, k) + 8)).ok
DeclaredName(data, k) ==
    c_str(Slice(data, DeclaredTextureOffset(data, k), DeclaredTextureOffset(data, k) + 8)).val
DeclaredPatchCount(data, k) ==
    UnpackU16(Slice(data, DeclaredTextureOffset(data, k) + 20, DeclaredTextureOffset(data, k) + 22))
\* the 2-byte field f (0: x, 1: y, 2: patch index) of placement j of entry k
PlacementField(data, k, j, f) ==
    Slice(data, DeclaredTextureOffset(data, k) + 22 + 10 * j + 2 * f,
                DeclaredTextureOffset(data, k) + 22 + 10 * j + 2 * f + 2)

\* the patch name table of the archive
PatchNames(w) == GetPnames(w).val

\* the three ways the claim lets an entry be malformed
HasBadOffset(data, k) == ~Readable(data, k)
HasBadPatchIndex(w, data, k) ==
    /\ Readable(data, k)
    /\ \E j \in 0..(DeclaredPatchCount(data, k) - 1) :
          UnpackU16(PlacementField(data, k, j, 2)) >= Len(PatchNames(w))
HasMissingPatch(w, data, k) ==
    /\ Readable(data, k)
    /\ ~HasBadPatchIndex(w, data, k)
    /\ \E j \in 0..(DeclaredPatchCount(data, k) - 1) :
          PatchNames(w)[UnpackU16(PlacementField(data, k, j, 2)) + 1] \notin DOMAIN w.lump_lookup
\* entry k is well formed: readable, every placement inside the lump, every
\* patch index in the table, every named patch a lump that decodes
WellFormedEntry(w, data, k) ==
    /\ Readable(data, k)
    /\ \A j \in 0..(DeclaredPatchCount(data, k) - 1) :
          /\ Len(PlacementField(data, k, j, 2)) = 2
          /\ UnpackU16(PlacementField(data, k, j, 2)) < Len(PatchNames(w))
          /\ LET n == PatchNames(w)[UnpackU16(PlacementField(data, k, j, 2)) + 1]
             IN  n \in DOMAIN w.lump_lookup /\ FromBytes(w.lump_lookup[n].data).ok

RECURSIVE NamesOfWellFormed(_, _, _)
\* the names of the well-formed entries from entry k on, in directory order
NamesOfWellFormed(w, data, k) ==
    IF k >= DeclaredTextures(data) THEN <<>>
    ELSE (IF WellFormedEntry(w, data, k) THEN <<DeclaredName(data, k)>> ELSE <<>>)
            \o NamesOfWellFormed(w, data, k + 1)

\* C4 as stated: when exactly one directory entry is malformed (bad offset,
\* out-of-range patch index, or a placement naming a patch without a lump),
\* Texture.load_textures does not raise, returns the textures of all other
\* entries in directory order, and reports one failure, by the bad entry's
\* name, or by its ordinal when the name could not be read.  Fails: a patch
\* name without a lump makes Wad.patch_map raise on every access, so every
\* entry that has a placement is dropped.
C4_MalformedTextureResilience ==
    tex_pc \in {"done", "raised"} =>
        \A b \in 0..(DeclaredTextures(tex_data) - 1) :
            (/\ GetPnames(tex_wad).ok
             /\ \/ HasBadOffset(tex_data, b)
                \/ HasBadPatchIndex(tex_wad, tex_data, b)
                \/ HasMissingPatch(tex_wad, tex_data, b)
             /\ \A k \in 0..(DeclaredTextures(tex_data) - 1) :
                   k # b => WellFormedEntry(tex_wad, tex_data, k))
            => /\ tex_pc = "done"
               /\ [m \in 1..Len(textures) |-> textures[m].name]
                     = NamesOfWellFormed(tex_wad, tex_data, 0)
               /\ failures =
                     <<IF Readable(tex_data, b)
                       THEN [by |-> "name", name |-> DeclaredName(tex_data, b), ordinal |-> -1]
                       ELSE [by |-> "ordinal", name |-> <<>>, ordinal |-> b]>>

\* C10 as stated: every placement of every texture returned has x and y equal
\* to the signed 16-bit values of its record's first two fields and
\* patchIndex equal to the unsigned value of the third.  Fails: x and y are
\* unpacked as unsigned ('HHH').
C10_SignedPlacementOffsets ==
    tex_pc = "done" =>
        \A m \in 1..Len(textures) :
            \E k \in 0..(DeclaredTextures(tex_data) - 1) :
                /\ Readable(tex_data, k)
                /\ DeclaredName(tex_data, k) = textures[m].name
                /\ DeclaredPatchCount(tex_data, k) = Len(textures[m].patches)
                /\ \A j \in 0..(Len(textures[m].patches) - 1) :
                      /\ textures[m].patches[j + 1].x = UnpackI16(PlacementField(tex_data, k, j, 0))
                      /\ textures[m].patches[j + 1].y = UnpackI16(PlacementField(tex_data, k, j, 1))
                      /\ textures[m].patches[j + 1].num = UnpackU16(PlacementField(tex_data, k, j, 2))

====
